---- MODULE Spec2Model ----
(***************************************************************************)
(* trackmarks.core.spatial: the lazily cached Ellipse polygon and the      *)
(* OptimalReprojector (CRS resolver, transformer pair builder, reprojection*)
(* pipeline).                                                              *)
(*                                                                         *)
(* A geometry is a record: x, y are the coordinates the caller gave (of a   *)
(* polygon: of its centroid), which the resolver reads as longitude and    *)
(* latitude, and crs is the frame the geometry is expressed in, which a    *)
(* transform changes.  x is a Python float, an IEEE 754 double, and the    *)
(* resolver's arithmetic on it is double arithmetic.  y and the other      *)
(* angles are integers in tenths of a degree (Deg(84) = 840): the code     *)
(* only compares the latitude with -80 and 84, and the comparisons come    *)
(* out the same in tenths as in doubles.  Semi-axes are whole nautical     *)
(* miles.  Python's None and                                               *)
(* the exceptions a call can raise are records too (tag "None", tag = the  *)
(* exception's class).                                                     *)
(***************************************************************************)
EXTENDS Integers, Sequences, FiniteSets, TLC

VARIABLES
    centroid,      \* Ellipse.centroid: a Point in EPSG:4326
    semi_major,    \* Ellipse.semi_major, nautical miles
    semi_minor,    \* Ellipse.semi_minor, nautical miles
    orientation,   \* Ellipse.orientation, degrees
    _ellipse,      \* Ellipse._ellipse: None or the cached polygon object
    nextId,        \* number of polygon objects allocated so far (object identity)
    last,          \* the last completed call on the Ellipse, and the one before it
    pc,            \* per thread: position inside ellipse / generate_ellipse
    frame,         \* per thread: the locals of the call in progress
    input_crs,     \* OptimalReprojector.input_crs
    geom,          \* the geometry handed to the reprojector
    func,          \* the operation handed to apply_geometry, with its keyword arguments
    rcall,         \* the last completed call on the reprojector
    gdf,           \* the table handed to apply_geodataframe (None: no table)
    built          \* per polygon built by a thread, in order: the call that built it

vars == <<centroid, semi_major, semi_minor, orientation, _ellipse, nextId, last,
          pc, frame, built, input_crs, geom, func, rcall, gdf>>

ellipseVars == <<centroid, semi_major, semi_minor, orientation, _ellipse, nextId, last>>
threadVars == <<pc, frame, built>>
reprojVars == <<input_crs, geom, func, rcall, gdf>>

----------------------------------------------------------------------------
(* Bounds of the model *)

\* polygon objects allocated in one behaviour
MaxObjects == 3
\* concurrent callers of one Ellipse
NumThreads == 2
\* how far (in tenths of a degree) the longitudes tried lie outside [-180, 180]
LonSlack == 65
\* how many doubles are tried on either side of each longitude written in tenths
MaxUlps == 2

(* Program constants *)
DEFAULT_ELLIPSE_RESOLUTION == 8
DEFAULT_ELLIPSE_ORIENTATION == 0
DEFAULT_EPSG_CRS == 4326
\* unit_reg.nautical_mile in unit_reg.meter
METERS_PER_NAUTICAL_MILE == 1852

Deg(d) == 10 * d

None == [tag |-> "None"]
Raised(cls) == [tag |-> cls]
IsError(v) == v.tag \in {"CRSError", "TypeError"}

----------------------------------------------------------------------------



(* Python's float: IEEE 754 double arithmetic, as far as the resolver uses it.
   A natural number of any size is the sequence of its digits in base 2^15, least
   significant first, with no leading zero (0 is the empty sequence) *)
Base == 32768

RECURSIVE big(_)
big(n) == IF n = 0 THEN <<>> ELSE <<n % Base>> \o big(n \div Base)

RECURSIVE small(_)
small(a) == IF a = <<>> THEN 0 ELSE a[1] + Base * small(Tail(a))

RECURSIVE trim(_)
trim(a) == IF a # <<>> /\ a[Len(a)] = 0 THEN trim(SubSeq(a, 1, Len(a) - 1)) ELSE a

digit(a, i) == IF i <= Len(a) THEN a[i] ELSE 0

RECURSIVE add_from(_, _, _, _)
add_from(a, b, i, carry) ==
    IF i > Len(a) /\ i > Len(b)
    THEN IF carry = 0 THEN <<>> ELSE <<carry>>
    ELSE LET s == digit(a, i) + digit(b, i) + carry
         IN  <<s % Base>> \o add_from(a, b, i + 1, s \div Base)
add(a, b) == add_from(a, b, 1, 0)

\* a - b for a >= b
RECURSIVE sub_from(_, _, _, _)
sub_from(a, b, i, borrow) ==
    IF i > Len(a)
    THEN <<>>
    ELSE LET s == digit(a, i) - digit(b, i) - borrow
         IN  <<s % Base>> \o sub_from(a, b, i + 1, IF s < 0 THEN 1 ELSE 0)
sub(a, b) == trim(sub_from(a, b, 1, 0))

\* a < b
RECURSIVE less_from(_, _, _)
less_from(a, b, i) ==
    IF i = 0 THEN FALSE
    ELSE IF a[i] # b[i] THEN a[i] < b[i]
    ELSE less_from(a, b, i - 1)
less(a, b) == IF Len(a) # Len(b) THEN Len(a) < Len(b) ELSE less_from(a, b, Len(a))

\* a * k for a small k (k <= 2^15)
RECURSIVE mul_from(_, _, _, _)
mul_from(a, k, i, carry) ==
    IF i > Len(a)
    THEN IF carry = 0 THEN <<>> ELSE <<carry>>
    ELSE LET s == a[i] * k + carry
         IN  <<s % Base>> \o mul_from(a, k, i + 1, s \div Base)
mul_small(a, k) == mul_from(a, k, 1, 0)

\* the quotient and the remainder of a by a small d (d <= 2^15), by long division
RECURSIVE div_from(_, _, _, _)
div_from(a, d, i, rem) ==
    IF i = 0
    THEN [quot |-> <<>>, rem |-> rem]
    ELSE LET cur == rem * Base + a[i]
             rest == div_from(a, d, i - 1, cur % d)
         IN  [quot |-> Append(rest.quot, cur \div d), rem |-> rest.rem]
trim_quot(r) == [r EXCEPT !.quot = trim(r.quot)]
div_small(a, d) == trim_quot(div_from(a, d, Len(a), 0))

\* a * 2^n
shl(a, n) ==
    IF a = <<>> THEN <<>>
    ELSE [i \in 1..(n \div 15) |-> 0] \o (IF n % 15 = 0 THEN a ELSE mul_small(a, 2 ^ (n % 15)))

\* a \div 2^n, and whether a bit was lost
lost_below(a, whole, r) ==
    [quot |-> r.quot, lost |-> r.rem # 0 \/ \E i \in 1..whole : digit(a, i) # 0]
shr(a, n) ==
    lost_below(a, n \div 15,
               div_small(IF n \div 15 >= Len(a) THEN <<>>
                         ELSE SubSeq(a, n \div 15 + 1, Len(a)), 2 ^ (n % 15)))

RECURSIVE bit_length_small(_)
bit_length_small(n) == IF n = 0 THEN 0 ELSE 1 + bit_length_small(n \div 2)
bit_length(a) == IF a = <<>> THEN 0 ELSE 15 * (Len(a) - 1) + bit_length_small(a[Len(a)])

odd(a) == a # <<>> /\ a[1] % 2 = 1

(* An IEEE 754 double: (-1)^neg * m * 2^e with m < 2^53.  round53 rounds the
   exact value m * 2^e (plus less than one unit of m when sticky) to the nearest
   double, ties to even *)
\* a significand of 54 bits after the carry of a rounding up
renormalize(neg, r, e) ==
    IF bit_length(r) = 54 THEN [neg |-> neg, m |-> shr(r, 1).quot, e |-> e + 1]
    ELSE [neg |-> neg, m |-> r, e |-> e]
\* g: the significand with its guard bit; kept: without
round_up(neg, g, kept, e, sticky) ==
    renormalize(neg,
                IF odd(g.quot) /\ (sticky \/ g.lost \/ odd(kept)) THEN add(kept, <<1>>)
                ELSE kept,
                e)
round_guard(neg, g, e, sticky) == round_up(neg, g, shr(g.quot, 1).quot, e, sticky)
round_drop(neg, m, e, sticky, drop) ==
    IF drop <= 0 THEN [neg |-> neg, m |-> m, e |-> e]
    ELSE round_guard(neg, shr(m, drop - 1), e + drop, sticky)
round53(neg, m, e, sticky) == round_drop(neg, m, e, sticky, bit_length(m) - 53)

\* the quotient q of a division, rounded
round_quot(neg, q, e) == round53(neg, q.quot, e, q.rem # 0)

\* the double nearest to n / d (the value of a decimal literal: 179.9 is 1799 / 10)
double_of(n, d) ==
    round_quot(n < 0, div_small(shl(big(IF n < 0 THEN -n ELSE n), 75), d), -75)

\* the next double away from zero, and the next toward zero (x a normal double)
carry_out(x, r) ==
    IF bit_length(r) = 54 THEN [x EXCEPT !.m = shr(r, 1).quot, !.e = x.e + 1]
    ELSE [x EXCEPT !.m = r]
away(x) == carry_out(x, add(x.m, <<1>>))
borrow_out(x, r) ==
    IF bit_length(r) = 52 THEN [x EXCEPT !.m = add(shl(r, 1), <<1>>), !.e = x.e - 1]
    ELSE [x EXCEPT !.m = r]
toward(x) == borrow_out(x, sub(x.m, <<1>>))

\* math.nextafter applied |k| times: upward for k > 0, downward for k < 0
RECURSIVE step(_, _)
step(x, k) ==
    IF k = 0 THEN x
    ELSE IF k > 0 THEN step(IF x.neg THEN toward(x) ELSE away(x), k - 1)
    ELSE step(IF x.neg THEN away(x) ELSE toward(x), k + 1)

\* x + y in double arithmetic; xm and ym are the significands at the exponent low
add_aligned(x, y, xm, ym, low) ==
    round53(IF x.neg = y.neg \/ ~less(xm, ym) THEN x.neg ELSE y.neg,
            IF x.neg = y.neg THEN add(xm, ym)
            ELSE IF less(xm, ym) THEN sub(ym, xm)
            ELSE sub(xm, ym),
            low, FALSE)
add_at(x, y, low) == add_aligned(x, y, shl(x.m, x.e - low), shl(y.m, y.e - low), low)
fadd(x, y) == add_at(x, y, IF x.e < y.e THEN x.e ELSE y.e)

\* x / d in double arithmetic, d a small positive integer
fdiv(x, d) == round_quot(x.neg, div_small(shl(x.m, 30), d), x.e - 30)

\* int(x): truncation toward zero
signed(neg, n) == IF neg THEN -n ELSE n
int(x) == signed(x.neg, small(IF x.e >= 0 THEN shl(x.m, x.e) ELSE shr(x.m, -x.e).quot))

\* x < y, exactly
less_aligned(x, y, xm, ym) ==
    IF x.neg # y.neg THEN x.neg /\ (xm # <<>> \/ ym # <<>>)
    ELSE IF x.neg THEN less(ym, xm)
    ELSE less(xm, ym)
less_at(x, y, low) == less_aligned(x, y, shl(x.m, x.e - low), shl(y.m, y.e - low))
fless(x, y) == less_at(x, y, IF x.e < y.e THEN x.e ELSE y.e)

\* float(n) for an integer n
float(n) == double_of(n, 1)

----------------------------------------------------------------------------
(* pyproj.CRS *)

GeographicCRS == [tag |-> "CRS", proj |-> "longlat", zone |-> 0, south |-> FALSE]
UtmCRS(z, s) == [tag |-> "CRS", proj |-> "utm", zone |-> z, south |-> s]

\* pyproj.CRS.from_epsg: the EPSG registry holds 4326 (WGS 84) and WGS 84 / UTM
\* zone 1N..60N, 1S..60S as 32601..32660, 32701..32760.  54032 is the ESRI code
\* of World Azimuthal Equidistant; there is no EPSG:54032 and the lookup raises.
CRS_from_epsg(code) ==
    IF code = 4326 THEN GeographicCRS
    ELSE IF code \in 32601..32660 THEN UtmCRS(code - 32600, FALSE)
    ELSE IF code \in 32701..32760 THEN UtmCRS(code - 32700, TRUE)
    ELSE Raised("CRSError")

\* pyproj.CRS.from_string("+proj=utm +zone=<z> +ellps=WGS84 ..."): no +south
CRS_from_utm_string(z) == UtmCRS(z, FALSE)

\* int((lon + 180) / 6) + 1
float_180 == float(180)
utm_zone(lon) == int(fdiv(fadd(lon, float_180), 6)) + 1

\* -80 < lat < 84
in_utm_band(lat) == Deg(-80) < lat /\ lat < Deg(84)

_determine_optimal_crs(point_4326) ==
    LET lon == point_4326.x
        lat == point_4326.y
    IN  IF in_utm_band(lat)
        THEN CRS_from_utm_string(utm_zone(lon))
        ELSE CRS_from_epsg(54032)

----------------------------------------------------------------------------
(* shapely geometries and the operations applied to them *)

Point(lon, lat, crs) == [tag |-> "Point", x |-> lon, y |-> lat, crs |-> crs]

\* geom.centroid
centroid_of(g) == Point(g.x, g.y, g.crs)

\* pyproj.Transformer.from_crs(src, dst, always_xy=True)
Transformer(src, dst) == [tag |-> "Transformer", src |-> src, dst |-> dst]

\* shapely.ops.transform(t.transform, g): every coordinate is mapped from t.src to
\* t.dst; a new geometry object is made
transform(t, g) == [g EXCEPT !.crs = t.dst]

\* semi_major.to(unit_reg.meter).magnitude
to_meters(nmi) == nmi * METERS_PER_NAUTICAL_MILE

\* centroid.buffer(1, resolution=resolution).  A polygon records how it was shaped:
\* the segments per quarter circle, the factors along x and y, the angle it was
\* turned by, and the order of the operations that shaped it (steps)
buffer(c, distance, resolution) ==
    [tag |-> "Polygon", id |-> -1, x |-> c.x, y |-> c.y, crs |-> c.crs,
     quad_segs |-> resolution, xfact |-> distance, yfact |-> distance, angle |-> 0,
     steps |-> <<"buffer">>]

\* shapely.affinity.scale(g, xfact=, yfact=)
scale(g, xfact, yfact) ==
    [g EXCEPT !.xfact = g.xfact * xfact, !.yfact = g.yfact * yfact,
              !.steps = Append(g.steps, "scale")]

\* shapely.affinity.rotate(g, angle)
rotate(g, angle) ==
    [g EXCEPT !.angle = g.angle + angle, !.steps = Append(g.steps, "rotate")]

\* the test `orientation == DEFAULT_ELLIPSE_ORIENTATION` that skips the rotation
skip_rotation(o) == o = DEFAULT_ELLIPSE_ORIENTATION

\* mutant of _generate_utm_ellipse: the rotation is applied before the scaling
_generate_utm_ellipse_rotate_first(c, kw) ==
    LET major_meters == to_meters(kw.semi_major)
        minor_meters == to_meters(kw.semi_minor)
        turned == IF skip_rotation(kw.orientation) THEN buffer(c, 1, kw.resolution)
                  ELSE rotate(buffer(c, 1, kw.resolution), kw.orientation)
    IN  scale(turned, major_meters, minor_meters)

_generate_utm_ellipse(c, kw) ==
    LET major_meters == to_meters(kw.semi_major)
        minor_meters == to_meters(kw.semi_minor)
        ell == scale(buffer(c, 1, kw.resolution), major_meters, minor_meters)
    IN  IF skip_rotation(kw.orientation) THEN ell ELSE rotate(ell, kw.orientation)

\* func(transformed_geom, *args, **kwargs)
call_func(f, g, kw) ==
    IF f = "_generate_utm_ellipse" THEN _generate_utm_ellipse(g, kw)
    ELSE buffer(centroid_of(g), kw.distance, kw.resolution)

----------------------------------------------------------------------------
(* OptimalReprojector *)

\* the test `optimal_crs == self.input_crs`: two frames are equal iff they denote
\* the same CRS definition
same_crs(a, b) == a = b

\* get_optimal_transformers from `if optimal_crs == self.input_crs` on
transformers_to(in_crs, optimal_crs) ==
    IF IsError(optimal_crs) THEN optimal_crs
    ELSE IF same_crs(optimal_crs, in_crs) THEN None
    ELSE [tag |-> "Pair",
          to_transformer |-> Transformer(in_crs, optimal_crs),
          return_transformer |-> Transformer(optimal_crs, in_crs)]

get_optimal_transformers(in_crs, g) ==
    transformers_to(in_crs,
                    _determine_optimal_crs(IF g.tag = "Point" THEN g ELSE centroid_of(g)))

\* apply_geometry: the value returned (ret), the exception raised (err) and the
\* calls made to the mapping functions and to func, in order (trace)
\* mutant of apply_transformers: the result of func is returned as it is, in the
\* optimal frame
apply_transformers_no_inverse(pair, g, f, kw) ==
    IF IsError(pair)
    THEN [ret |-> None, err |-> pair, trace |-> <<>>]
    ELSE IF pair = None
    THEN [ret |-> None, err |-> Raised("TypeError"), trace |-> <<>>]
    ELSE LET fwd == transform(pair.to_transformer, g)
             res == call_func(f, fwd, kw)
         IN  [ret |-> res, err |-> None,
              trace |-> << [call |-> "forward", arg |-> g, kw |-> None],
                           [call |-> "func", arg |-> fwd, kw |-> kw] >>]

\* apply_geometry from the unpacking of the pair on
apply_transformers(pair, g, f, kw) ==
    IF IsError(pair)
    THEN [ret |-> None, err |-> pair, trace |-> <<>>]
    ELSE IF pair = None
    THEN \* `to_transformer, return_transformer = None` cannot be unpacked
         [ret |-> None, err |-> Raised("TypeError"), trace |-> <<>>]
    ELSE LET fwd == transform(pair.to_transformer, g)
             res == call_func(f, fwd, kw)
             back == transform(pair.return_transformer, res)
         IN  [ret |-> back, err |-> None,
              trace |-> << [call |-> "forward", arg |-> g, kw |-> None],
                           [call |-> "func", arg |-> fwd, kw |-> kw],
                           [call |-> "inverse", arg |-> res, kw |-> None] >>]

apply_geometry(in_crs, g, f, kw) ==
    apply_transformers(get_optimal_transformers(in_crs, g), g, f, kw)

----------------------------------------------------------------------------
(* Ellipse *)

\* the keyword arguments generate_ellipse hands to apply_geometry
ellipse_kwargs(smaj, smin, o, resolution) ==
    [semi_major |-> smaj, semi_minor |-> smin, orientation |-> o,
     resolution |-> resolution]

\* mutant of new_object: an exception of the construction is swallowed
new_object_suppressed(r, id) ==
    IF r.err = None THEN [r EXCEPT !.ret.id = id] ELSE [r EXCEPT !.err = None]

\* the polygon a call returns is a new object, identified by id
new_object(r, id) == IF r.err = None THEN [r EXCEPT !.ret.id = id] ELSE r

\* mutant of construct: the resolution passed is dropped for the default
construct_default_resolution(c, smaj, smin, o, resolution, id) ==
    new_object(apply_geometry(CRS_from_epsg(DEFAULT_EPSG_CRS), c, "_generate_utm_ellipse",
                              ellipse_kwargs(smaj, smin, o, DEFAULT_ELLIPSE_RESOLUTION)),
               id)

\* the body of generate_ellipse up to its `if cache`: the polygon built from the
\* fields c, smaj, smin, o (a new object, identified by id), or the exception
construct(c, smaj, smin, o, resolution, id) ==
    new_object(apply_geometry(CRS_from_epsg(DEFAULT_EPSG_CRS), c, "_generate_utm_ellipse",
                              ellipse_kwargs(smaj, smin, o, resolution)),
               id)

\* mutants of store: never, only into an empty slot, always
store_never(cache, new, old) == old
store_if_empty(cache, new, old) == IF cache /\ old = None THEN new ELSE old
store_always(cache, new, old) == new

\* `if cache: self._ellipse = ellipse`
store(cache, new, old) == IF cache THEN new ELSE old

\* mutant of slot_is_empty: the property never computes
slot_never_empty(slot) == FALSE

\* mutant of slot_is_empty: the property recomputes on every read
slot_always_empty(slot) == TRUE

\* `self._ellipse is None`
slot_is_empty(slot) == slot = None

\* one invocation of generate_ellipse, as the calls record it
Invocation(resolution, cache) ==
    [centroid |-> centroid, semi_major |-> semi_major, semi_minor |-> semi_minor,
     orientation |-> orientation, resolution |-> resolution, cache |-> cache]

NoCall ==
    [op |-> "none", resolution |-> 0, cache |-> FALSE, pre |-> None, ret |-> None,
     err |-> None, made |-> None, gen |-> <<>>, got |-> None]

\* the record of a completed call: what it was (op, resolution, cache), the slot
\* before it (pre), what it returned or raised (ret, err), the polygon it built
\* (made), the invocations of generate_ellipse it made (gen), and what the latest
\* read of the property returned if no generate_ellipse(cache=True) was called
\* since (got)
Completed(op, resolution, cache, ret, err, made, gen) ==
    [call |-> [op |-> op, resolution |-> resolution, cache |-> cache, pre |-> _ellipse,
               ret |-> ret, err |-> err, made |-> made, gen |-> gen,
               got |-> IF op = "ellipse" /\ err = None THEN ret
                       ELSE IF op = "generate_ellipse" /\ cache THEN None
                       ELSE last.call.got],
     before |-> last.call]

\* Ellipse.generate_ellipse(resolution, cache), called by one caller at a time
generate_ellipse(resolution, cache) ==
    LET r == construct(centroid, semi_major, semi_minor, orientation, resolution, nextId)
    IN  /\ r.err # None \/ nextId < MaxObjects
        /\ _ellipse' = IF r.err = None THEN store(cache, r.ret, _ellipse) ELSE _ellipse
        /\ nextId' = IF r.err = None THEN nextId + 1 ELSE nextId
        /\ last' = Completed("generate_ellipse", resolution, cache, r.ret, r.err, r.ret,
                             << Invocation(resolution, cache) >>)
        /\ UNCHANGED <<centroid, semi_major, semi_minor, orientation>>
        /\ UNCHANGED <<threadVars, reprojVars>>

\* the property Ellipse.ellipse, called by one caller at a time
ellipse ==
    IF slot_is_empty(_ellipse)
    THEN LET r == construct(centroid, semi_major, semi_minor, orientation,
                            DEFAULT_ELLIPSE_RESOLUTION, nextId)
         IN  /\ r.err # None \/ nextId < MaxObjects
             /\ _ellipse' = IF r.err = None THEN store(TRUE, r.ret, _ellipse) ELSE _ellipse
             /\ nextId' = IF r.err = None THEN nextId + 1 ELSE nextId
             /\ last' = Completed("ellipse", DEFAULT_ELLIPSE_RESOLUTION, TRUE,
                                  IF r.err = None THEN _ellipse' ELSE None, r.err, r.ret,
                                  << Invocation(DEFAULT_ELLIPSE_RESOLUTION, TRUE) >>)
             /\ UNCHANGED <<centroid, semi_major, semi_minor, orientation>>
             /\ UNCHANGED <<threadVars, reprojVars>>
    ELSE /\ last' = Completed("ellipse", DEFAULT_ELLIPSE_RESOLUTION, TRUE,
                              _ellipse, None, None, <<>>)
         /\ UNCHANGED <<centroid, semi_major, semi_minor, orientation, _ellipse, nextId>>
         /\ UNCHANGED <<threadVars, reprojVars>>

\* the inputs tried
Centroids == { Point(double_of(-844, 10), Deg(33) + 8, GeographicCRS),
               Point(float(0), Deg(85), GeographicCRS) }
SemiMajors == {-1, 2}
SemiMinors == {-1, 1}
Orientations == {0, 10}
Resolutions == {-1, 0, DEFAULT_ELLIPSE_RESOLUTION, 16}

\* mutant of set_fields: an assignment to a field empties the slot
set_fields_invalidating(c, smaj, smin, o) ==
    /\ <<c, smaj, smin, o>> # <<centroid, semi_major, semi_minor, orientation>>
    /\ centroid' = c
    /\ semi_major' = smaj
    /\ semi_minor' = smin
    /\ orientation' = o
    /\ last' = [call |-> [NoCall EXCEPT !.op = "set", !.pre = _ellipse,
                                        !.got = last.call.got],
                before |-> last.call]
    /\ _ellipse' = None
    /\ UNCHANGED nextId
    /\ UNCHANGED <<threadVars, reprojVars>>

\* assignment to the fields of the (unfrozen) dataclass
set_fields(c, smaj, smin, o) ==
    /\ <<c, smaj, smin, o>> # <<centroid, semi_major, semi_minor, orientation>>
    /\ centroid' = c
    /\ semi_major' = smaj
    /\ semi_minor' = smin
    /\ orientation' = o
    /\ last' = [call |-> [NoCall EXCEPT !.op = "set", !.pre = _ellipse,
                                        !.got = last.call.got],
                before |-> last.call]
    /\ UNCHANGED <<_ellipse, nextId>>
    /\ UNCHANGED <<threadVars, reprojVars>>

Threads == 1..NumThreads
IdleThreads == [t \in Threads |-> "idle"]

\* a thread's call: what it is (op, resolution, cache), the local `ellipse` of
\* generate_ellipse while it runs, and what the call returned or raised once it
\* is over
NoFrame ==
    [op |-> "none", resolution |-> 0, cache |-> FALSE, ellipse |-> None,
     ret |-> None, err |-> None]
NoFrames == [t \in Threads |-> NoFrame]

NoRCall == [op |-> "none", ret |-> None, err |-> None, trace |-> <<>>]

\* the reprojector is not in use while the Ellipse is exercised
ReprojIdle ==
    /\ input_crs = GeographicCRS
    /\ geom = None
    /\ func = None
    /\ rcall = NoRCall
    /\ gdf = None

\* Ellipse(centroid, semi_major, semi_minor, orientation)
InitEllipse ==
    /\ centroid \in Centroids
    /\ semi_major \in SemiMajors
    /\ semi_minor \in SemiMinors
    /\ orientation \in Orientations
    /\ _ellipse = None
    /\ nextId = 0
    /\ last = [call |-> NoCall, before |-> NoCall]

Init ==
    /\ InitEllipse
    /\ pc = IdleThreads
    /\ frame = NoFrames
    /\ built = <<>>
    /\ ReprojIdle

Next ==
    \/ ellipse
    \/ \E resolution \in Resolutions, cache \in BOOLEAN : generate_ellipse(resolution, cache)

Spec == Init /\ [][Next]_vars

----------------------------------------------------------------------------
(* The lazy cache, one caller at a time (Spec) *)

ThisCall == last.call
PrevCall == last.before

\* C1: a read of the property that follows an earlier read which returned, with no
\* generate_ellipse(cache=True) between the two, returns the very object the earlier
\* read returned and invokes no construction.
C1_CacheIdentity ==
    (ThisCall.op = "ellipse" /\ PrevCall.got # None)
        => /\ ThisCall.err = None
           /\ ThisCall.ret = PrevCall.got
           /\ ThisCall.ret.id = PrevCall.got.id
           /\ ThisCall.gen = <<>>
           /\ ThisCall.made = None

\* two reads in a row, the first of which built the polygon
C1_Witness ==
    /\ ThisCall.op = "ellipse"
    /\ PrevCall.op = "ellipse"
    /\ PrevCall.made # None
    /\ ThisCall.ret = PrevCall.ret

\* the polygon the construction yields for the Ellipse's fields at resolution r
BuiltFromFields(p, r) ==
    /\ p.tag = "Polygon"
    /\ p.crs = GeographicCRS
    /\ p.x = centroid.x
    /\ p.y = centroid.y
    /\ p.xfact = semi_major * METERS_PER_NAUTICAL_MILE
    /\ p.yfact = semi_minor * METERS_PER_NAUTICAL_MILE
    /\ p.angle = orientation
    /\ p.quad_segs = r

\* C2: a read of the property with the slot empty invokes the construction exactly
\* once, with the stored centroid, semi-axes and orientation and the default
\* resolution 8; when the construction yields a polygon, that object is stored in
\* the slot and is the object returned, so the slot is populated.
C2_PopulateOnEmpty ==
    (ThisCall.op = "ellipse" /\ ThisCall.pre = None)
        => /\ ThisCall.gen = << Invocation(DEFAULT_ELLIPSE_RESOLUTION, TRUE) >>
           /\ ThisCall.gen[1].resolution = 8
           /\ ThisCall.err = None
                => /\ BuiltFromFields(ThisCall.made, DEFAULT_ELLIPSE_RESOLUTION)
                   /\ _ellipse = ThisCall.made
                   /\ ThisCall.ret = _ellipse
                   /\ _ellipse # None

C2_Witness ==
    /\ ThisCall.op = "ellipse"
    /\ ThisCall.pre = None
    /\ ThisCall.err = None
    /\ _ellipse = ThisCall.ret
    /\ _ellipse.quad_segs = 8

\* C3: generate_ellipse(resolution, cache=True) that returns P leaves P in the slot,
\* whether the slot was empty or populated, and the read of the property that follows
\* returns P itself, not the object cached before.
C3_PersistThenGet ==
    /\ (ThisCall.op = "generate_ellipse" /\ ThisCall.cache /\ ThisCall.err = None)
          => (_ellipse = ThisCall.ret /\ ThisCall.ret # ThisCall.pre)
    /\ (ThisCall.op = "ellipse" /\ PrevCall.op = "generate_ellipse" /\ PrevCall.cache
            /\ PrevCall.err = None)
          => /\ ThisCall.err = None
             /\ ThisCall.ret = PrevCall.ret
             /\ ThisCall.ret # PrevCall.pre

\* a persisted regeneration over a populated slot, then a read
C3_Witness ==
    /\ ThisCall.op = "ellipse"
    /\ PrevCall.op = "generate_ellipse"
    /\ PrevCall.cache
    /\ PrevCall.pre # None
    /\ ThisCall.ret = PrevCall.ret

\* C4: generate_ellipse(resolution, cache=False) leaves the slot as it was; the read
\* that follows returns the object cached before the call if there was one, and
\* otherwise finds the slot empty and constructs with the default resolution, not
\* with the resolution generate_ellipse was given.
C4_NoPersistFrame ==
    /\ (ThisCall.op = "generate_ellipse" /\ ~ThisCall.cache) => _ellipse = ThisCall.pre
    /\ (ThisCall.op = "ellipse" /\ PrevCall.op = "generate_ellipse" /\ ~PrevCall.cache)
          => IF PrevCall.pre # None
             THEN ThisCall.ret = PrevCall.pre /\ ThisCall.gen = <<>>
             ELSE /\ ThisCall.pre = None
                  /\ Len(ThisCall.gen) = 1
                  /\ ThisCall.gen[1].resolution = DEFAULT_ELLIPSE_RESOLUTION
                  /\ ThisCall.err = None
                        => ThisCall.ret.quad_segs = DEFAULT_ELLIPSE_RESOLUTION

\* an unpersisted regeneration at another resolution on an empty slot, then a read
C4_Witness ==
    /\ ThisCall.op = "ellipse"
    /\ PrevCall.op = "generate_ellipse"
    /\ ~PrevCall.cache
    /\ PrevCall.err = None
    /\ PrevCall.pre = None
    /\ PrevCall.resolution # DEFAULT_ELLIPSE_RESOLUTION
    /\ ThisCall.err = None

\* C5: every generate_ellipse call, for either value of cache and with the slot
\* empty or populated, invokes the construction once with the resolution given; the
\* polygon the construction yields is what the call returns, a new object built at
\* that resolution and never the object held in the slot before the call.
C5_RegenerateFresh ==
    ThisCall.op = "generate_ellipse"
        => /\ ThisCall.gen = << Invocation(ThisCall.resolution, ThisCall.cache) >>
           /\ ThisCall.err = None
                => /\ ThisCall.ret = ThisCall.made
                   /\ BuiltFromFields(ThisCall.ret, ThisCall.resolution)
                   /\ ThisCall.ret.id = nextId - 1
                   /\ ThisCall.ret # ThisCall.pre
                   /\ ThisCall.pre # None => ThisCall.pre.id < ThisCall.ret.id

\* an unpersisted regeneration at another resolution over a populated slot
C5_Witness ==
    /\ ThisCall.op = "generate_ellipse"
    /\ ~ThisCall.cache
    /\ ThisCall.err = None
    /\ ThisCall.pre # None
    /\ ThisCall.resolution # ThisCall.pre.quad_segs
    /\ ThisCall.ret.quad_segs = ThisCall.resolution

\* C9: a construction with resolution <= 0 or with a negative semi_major or
\* semi_minor fails with InvalidParameterError: the call returns no polygon, builds
\* none, and leaves the slot as it was.
C9_InvalidParametersRejected ==
    (/\ ThisCall.op \in {"ellipse", "generate_ellipse"}
     /\ ThisCall.gen # <<>>
     /\ \/ ThisCall.resolution <= 0
        \/ semi_major < 0
        \/ semi_minor < 0)
        => /\ ThisCall.err = Raised("InvalidParameterError")
           /\ ThisCall.ret = None
           /\ ThisCall.made = None
           /\ _ellipse = ThisCall.pre

\* C13: the ellipse is a buffer of radius 1 of the centroid scaled by semi_major in
\* meters along x and by semi_minor in meters along y (1852 m to the nautical mile:
\* 2 nmi give the factor 3704); the rotation by orientation comes after the scaling
\* and only when orientation # 0, so that orientation = 0 gives the scaled polygon
\* itself.
C13_ScaleThenRotate ==
    (ThisCall.op \in {"ellipse", "generate_ellipse"} /\ ThisCall.made # None)
        => /\ ThisCall.made.xfact = 1 * semi_major * 1852
           /\ ThisCall.made.yfact = 1 * semi_minor * 1852
           /\ semi_major = 2 => ThisCall.made.xfact = 3704
           /\ ThisCall.made.quad_segs = ThisCall.resolution
           /\ IF orientation = 0
              THEN /\ ThisCall.made.steps = <<"buffer", "scale">>
                   /\ ThisCall.made.angle = 0
                   /\ ThisCall.made =
                        [scale(buffer(centroid, 1, ThisCall.resolution),
                               semi_major * 1852, semi_minor * 1852)
                            EXCEPT !.id = ThisCall.made.id]
              ELSE /\ ThisCall.made.steps = <<"buffer", "scale", "rotate">>
                   /\ ThisCall.made.angle = orientation

\* the test's ellipse, 2 by 1 nautical miles turned by 10 degrees, was built
C13_Witness ==
    /\ ThisCall.op = "ellipse"
    /\ ThisCall.made # None
    /\ semi_major = 2
    /\ semi_minor = 1
    /\ orientation = 10
    /\ ThisCall.made.xfact = 3704
    /\ ThisCall.made.yfact = 1852
    /\ ThisCall.made.steps[3] = "rotate"

----------------------------------------------------------------------------
(* The lazy cache of an Ellipse whose fields are assigned to between the calls *)
(* (SpecFields)                                                                *)

\* the values assigned: either centroid, semi-major axes of 2 and 3 nautical miles,
\* either orientation; generate_ellipse is called at the default resolution and at
\* one other
FieldSemiMajors == {2, 3}
FieldResolutions == {DEFAULT_ELLIPSE_RESOLUTION, 16}

InitFields ==
    /\ centroid \in Centroids
    /\ semi_major = 2
    /\ semi_minor = 1
    /\ orientation \in Orientations
    /\ _ellipse = None
    /\ nextId = 0
    /\ last = [call |-> NoCall, before |-> NoCall]
    /\ pc = IdleThreads
    /\ frame = NoFrames
    /\ built = <<>>
    /\ ReprojIdle

NextFields ==
    \/ ellipse
    \/ \E resolution \in FieldResolutions, cache \in BOOLEAN :
          generate_ellipse(resolution, cache)
    \/ \E c \in Centroids, smaj \in FieldSemiMajors, o \in Orientations :
          set_fields(c, smaj, semi_minor, o)

SpecFields == InitFields /\ [][NextFields]_vars

\* what the construction gives for the Ellipse's fields at the resolution of the
\* last call
ConstructionOutcome ==
    apply_geometry(CRS_from_epsg(DEFAULT_EPSG_CRS), centroid, "_generate_utm_ellipse",
                   ellipse_kwargs(semi_major, semi_minor, orientation, ThisCall.resolution))

\* C15: when the construction fails during a read of the property or during
\* generate_ellipse, for either value of cache, the call raises the construction's
\* exception, having invoked the construction once (no retry) and returning nothing,
\* and the slot holds what it held before the call, None or a polygon.
C15_FailureLeavesSlot ==
    (/\ ThisCall.op \in {"ellipse", "generate_ellipse"}
     /\ ThisCall.gen # <<>>
     /\ ConstructionOutcome.err # None)
        => /\ ThisCall.err = ConstructionOutcome.err
           /\ ThisCall.err # None
           /\ ThisCall.ret = None
           /\ ThisCall.made = None
           /\ Len(ThisCall.gen) = 1
           /\ _ellipse = ThisCall.pre

\* generate_ellipse(cache=True) failed on an Ellipse whose slot was populated before
\* its centroid was moved beyond latitude 84: the slot still holds that polygon
C15_Witness ==
    /\ ThisCall.op = "generate_ellipse"
    /\ ThisCall.cache
    /\ ThisCall.err = Raised("CRSError")
    /\ ThisCall.pre # None
    /\ _ellipse = ThisCall.pre
    /\ _ellipse.tag = "Polygon"

\* C17: whatever the calls and the assignments to the fields, the slot once
\* populated is never None again and is assigned to only by a
\* generate_ellipse(cache=True) that returns; a read of the property that follows an
\* assignment to the fields returns the polygon cached before the assignment.
C17_SlotKeptAcrossAssignments ==
    [][/\ _ellipse # None => _ellipse' # None
       /\ (_ellipse # None /\ _ellipse' # _ellipse)
             => /\ last'.call.op = "generate_ellipse"
                /\ last'.call.cache
                /\ last'.call.err = None
                /\ _ellipse' = last'.call.ret
       /\ (_ellipse # None /\ last'.call.op = "ellipse")
             => /\ last'.call.err = None
                /\ last'.call.ret = _ellipse
                /\ last'.call.gen = <<>>
                /\ _ellipse' = _ellipse
       /\ last'.call.op = "set" => _ellipse' = _ellipse]_vars

\* a read after the centroid and the semi-major axis were changed returned the
\* polygon cached before, which is not the polygon of the fields as they are
C17_Witness ==
    /\ ThisCall.op = "ellipse"
    /\ PrevCall.op = "set"
    /\ PrevCall.pre # None
    /\ ThisCall.err = None
    /\ ThisCall.ret = PrevCall.pre
    /\ ThisCall.ret.x # centroid.x
    /\ ThisCall.ret.xfact # semi_major * METERS_PER_NAUTICAL_MILE

----------------------------------------------------------------------------
(* The reprojector on its own (SpecCRS): OptimalReprojector(input_epsg) is     *)
(* handed one geometry and one operation, and its methods are called on them. *)

\* self._determine_optimal_crs(geom)
Call_determine_optimal_crs ==
    LET r == _determine_optimal_crs(geom)
    IN  /\ rcall' = [op |-> "_determine_optimal_crs",
                     ret |-> IF IsError(r) THEN None ELSE r,
                     err |-> IF IsError(r) THEN r ELSE None,
                     trace |-> <<>>]
        /\ UNCHANGED <<input_crs, geom, func, gdf, ellipseVars, threadVars>>

\* self.get_optimal_transformers(geom)
Call_get_optimal_transformers ==
    LET r == get_optimal_transformers(input_crs, geom)
    IN  /\ rcall' = [op |-> "get_optimal_transformers",
                     ret |-> IF IsError(r) THEN None ELSE r,
                     err |-> IF IsError(r) THEN r ELSE None,
                     trace |-> <<>>]
        /\ UNCHANGED <<input_crs, geom, func, gdf, ellipseVars, threadVars>>

\* self.apply_geometry(geom, func, **kwargs)
Call_apply_geometry ==
    LET r == apply_geometry(input_crs, geom, func.name, func.kw)
    IN  /\ rcall' = [op |-> "apply_geometry", ret |-> r.ret, err |-> r.err,
                     trace |-> r.trace]
        /\ UNCHANGED <<input_crs, geom, func, gdf, ellipseVars, threadVars>>

\* the inputs tried: on the equator, every longitude written in tenths of a degree
\* from LonSlack below -180 to LonSlack above 180, and the doubles up to MaxUlps
\* steps of math.nextafter on either side of each whole degree (but 0, around which
\* the doubles are subnormal), read by a reprojector of EPSG:4326; and a few
\* geometries, points and polygons, at the latitudes around the bounds of the UTM
\* band, read by reprojectors of EPSG:4326, of UTM 16N (the zone of the test's
\* centroid) and of UTM 16S
Tenths == (Deg(-180) - LonSlack) .. (Deg(180) + LonSlack)
Lons == { double_of(t, 10) : t \in Tenths }
            \cup { step(double_of(t, 10), k) :
                     t \in { u \in Tenths : u % 10 = 0 /\ u # 0 },
                     k \in -MaxUlps .. MaxUlps }
SampleLons == {float(-180), double_of(-844, 10), float(-78), float(0),
               double_of(1799, 10)}
SampleLats == {Deg(-90), Deg(-85), Deg(-80) - 1, Deg(-80), Deg(-80) + 1, 0,
               Deg(33) + 8, Deg(84) - 1, Deg(84), Deg(84) + 1, Deg(85), Deg(90)}
InputEpsgs == {DEFAULT_EPSG_CRS, 32616, 32716}
Funcs == { [name |-> "_generate_utm_ellipse",
            kw |-> ellipse_kwargs(2, 1, 10, DEFAULT_ELLIPSE_RESOLUTION)],
           [name |-> "buffer", kw |-> [distance |-> 100, resolution |-> 16]] }

Polygon(lon, lat, crs) ==
    [tag |-> "Polygon", id |-> -1, x |-> lon, y |-> lat, crs |-> crs,
     quad_segs |-> 1, xfact |-> 1, yfact |-> 1, angle |-> 0, steps |-> <<>>]

\* the Ellipse is not in use while the reprojector is exercised
EllipseIdle ==
    /\ centroid = Point(double_of(-844, 10), Deg(33) + 8, GeographicCRS)
    /\ semi_major = 2
    /\ semi_minor = 1
    /\ orientation = 10
    /\ _ellipse = None
    /\ nextId = 0
    /\ last = [call |-> NoCall, before |-> NoCall]

InitCRS ==
    /\ EllipseIdle
    /\ pc = IdleThreads
    /\ frame = NoFrames
    /\ built = <<>>
    /\ rcall = NoRCall
    /\ gdf = None
    /\ \/ /\ input_crs = CRS_from_epsg(DEFAULT_EPSG_CRS)
          /\ func \in Funcs
          /\ func.name = "_generate_utm_ellipse"
          /\ \E lon \in Lons : geom = Point(lon, 0, input_crs)
       \/ /\ input_crs \in {CRS_from_epsg(e) : e \in InputEpsgs}
          /\ func \in Funcs
          /\ \E lon \in SampleLons, lat \in SampleLats :
                geom \in {Point(lon, lat, input_crs), Polygon(lon, lat, input_crs)}

NextCRS ==
    \/ Call_determine_optimal_crs
    \/ Call_get_optimal_transformers
    \/ Call_apply_geometry

SpecCRS == InitCRS /\ [][NextCRS]_vars

\* the frame the resolver's fallback branch names: World Azimuthal Equidistant
WorldAzimuthalEquidistant ==
    [tag |-> "CRS", proj |-> "aeqd", zone |-> 0, south |-> FALSE]

\* C6: for a point with -80 < latitude < 84 and longitude in [-180, 180) the resolver
\* selects the UTM frame of zone floor((longitude + 180) / 6) + 1, a zone between 1
\* and 60; longitude -180 gives zone 1 and longitude 179.9 gives zone 60.  (The zone
\* z is floor((longitude + 180) / 6) + 1 when 6 (z - 1) - 180 <= longitude < 6 z - 180,
\* bounds which are doubles.)
C6_UtmZone ==
    (/\ rcall.op = "_determine_optimal_crs"
     /\ Deg(-80) < geom.y /\ geom.y < Deg(84)
     /\ ~fless(geom.x, float(-180)) /\ fless(geom.x, float(180)))
        => /\ rcall.err = None
           /\ rcall.ret.tag = "CRS"
           /\ rcall.ret.proj = "utm"
           /\ rcall.ret.zone \in 1..60
           /\ ~fless(geom.x, float(6 * (rcall.ret.zone - 1) - 180))
           /\ fless(geom.x, float(6 * rcall.ret.zone - 180))
           /\ geom.x = float(-180) => rcall.ret.zone = 1
           /\ geom.x = double_of(1799, 10) => rcall.ret.zone = 60

\* 2^-44: the rounding of lon + 180 and of the quotient moves a longitude by less
ZoneSlack == [neg |-> TRUE, m |-> <<1>>, e |-> -44]

\* the part of C6 the code keeps: a UTM frame of a zone z between 1 and 61 with
\* 6 (z - 1) - 180 - 2^-44 <= longitude < 6 z - 180, which is the claim's zone for
\* every longitude but those less than 2^-44 below a zone's western bound
C6_AsCoded ==
    (/\ rcall.op = "_determine_optimal_crs"
     /\ Deg(-80) < geom.y /\ geom.y < Deg(84)
     /\ ~fless(geom.x, float(-180)) /\ fless(geom.x, float(180)))
        => /\ rcall.err = None
           /\ rcall.ret.proj = "utm"
           /\ rcall.ret.zone \in 1..61
           /\ ~fless(geom.x, fadd(float(6 * (rcall.ret.zone - 1) - 180), ZoneSlack))
           /\ fless(geom.x, float(6 * rcall.ret.zone - 180))

\* C16: for a point with longitude in [-180, 180], both ends included, and
\* -80 < latitude < 84, the zone the resolver computes is one of the 60 UTM zones,
\* 1 to 60.
C16_ZoneIsOneOfSixty ==
    (/\ rcall.op = "_determine_optimal_crs"
     /\ Deg(-90) <= geom.y /\ geom.y <= Deg(90)
     /\ Deg(-80) < geom.y /\ geom.y < Deg(84)
     /\ ~fless(geom.x, float(-180)) /\ ~fless(float(180), geom.x))
        => /\ rcall.err = None
           /\ rcall.ret.tag = "CRS"
           /\ rcall.ret.proj = "utm"
           /\ rcall.ret.zone \in 1..60

\* C7: for a point with latitude <= -80 or latitude >= 84 the resolver selects the
\* World Azimuthal Equidistant frame, whatever the longitude; it selects a UTM frame
\* only when -80 < latitude < 84.
C7_PolarFallback ==
    rcall.op = "_determine_optimal_crs"
        => /\ (geom.y <= Deg(-80) \/ geom.y >= Deg(84))
                => (rcall.err = None /\ rcall.ret = WorldAzimuthalEquidistant)
           /\ (rcall.ret.tag = "CRS" /\ rcall.ret.proj = "utm")
                => (Deg(-80) < geom.y /\ geom.y < Deg(84))

\* the part of C7 the code keeps: a UTM frame is selected exactly when
\* -80 < latitude < 84, and outside the band the call ends in pyproj's CRSError
C7_AsCoded ==
    rcall.op = "_determine_optimal_crs"
        => IF Deg(-80) < geom.y /\ geom.y < Deg(84)
           THEN rcall.err = None /\ rcall.ret.proj = "utm"
           ELSE rcall.err = Raised("CRSError") /\ rcall.ret = None

\* C8: when the optimal frame equals the reprojector's input frame,
\* get_optimal_transformers returns None, and apply_geometry returns func applied
\* to the input geometry itself, with no call of a forward or inverse mapping and
\* no error.
C8_NoTransformShortCircuit ==
    (~IsError(_determine_optimal_crs(centroid_of(geom)))
        /\ _determine_optimal_crs(centroid_of(geom)) = input_crs)
        => /\ rcall.op = "get_optimal_transformers"
                => (rcall.err = None /\ rcall.ret = None)
           /\ rcall.op = "apply_geometry"
                => /\ rcall.err = None
                   /\ rcall.ret = call_func(func.name, geom, func.kw)
                   /\ \A i \in 1..Len(rcall.trace) :
                         rcall.trace[i].call \notin {"forward", "inverse"}

\* the part of C8 the code keeps: the pair builder returns None
C8_BuilderReturnsNone ==
    (rcall.op = "get_optimal_transformers" /\ rcall.err = None
        /\ _determine_optimal_crs(centroid_of(geom)) = input_crs)
        => rcall.ret = None

\* the pair of transformers built for the geometry handed to the reprojector
ThePair == get_optimal_transformers(input_crs, geom)

\* C12: when a transformer pair exists, apply_geometry makes three calls, in this
\* order and each once: the forward transform of the input geometry, func on the
\* forward-transformed geometry with the caller's keyword arguments as given, the
\* inverse transform of func's result; it returns the inverse-transformed result,
\* which is in the input frame.
C12_ForwardFuncInverse ==
    (rcall.op = "apply_geometry" /\ ThePair.tag = "Pair")
        => /\ rcall.err = None
           /\ Len(rcall.trace) = 3
           /\ rcall.trace[1] = [call |-> "forward", arg |-> geom, kw |-> None]
           /\ rcall.trace[2] = [call |-> "func",
                                arg |-> transform(ThePair.to_transformer, geom),
                                kw |-> func.kw]
           /\ rcall.trace[2].arg.crs = _determine_optimal_crs(centroid_of(geom))
           /\ rcall.trace[3] = [call |-> "inverse",
                                arg |-> call_func(func.name, rcall.trace[2].arg, func.kw),
                                kw |-> None]
           /\ rcall.trace[3].arg.crs = rcall.trace[2].arg.crs
           /\ rcall.ret = transform(ThePair.return_transformer, rcall.trace[3].arg)
           /\ rcall.ret.crs = input_crs

\* a polygon in UTM 16S buffered in the frame of its zone and returned in UTM 16S
C12_Witness ==
    /\ rcall.op = "apply_geometry"
    /\ ThePair.tag = "Pair"
    /\ geom.tag = "Polygon"
    /\ func.name = "buffer"
    /\ input_crs = CRS_from_epsg(32716)
    /\ Len(rcall.trace) = 3
    /\ rcall.trace[2].arg.crs # input_crs
    /\ rcall.ret.crs = input_crs
    /\ rcall.ret.quad_segs = 16

----------------------------------------------------------------------------
(* The batch variant (SpecBatch): a table is a record whose rows are a         *)
(* sequence; a row has an index label, a non-geometry column and the geometry  *)
(* column.                                                                     *)

\* rows in one table
MaxRows == 2

GeoDataFrame(rows) == [tag |-> "GeoDataFrame", rows |-> rows]

\* mutant of row_results: every row is computed from the first row's geometry
row_results_shared(in_crs, rows, f, kw) ==
    [i \in 1..Len(rows) |-> apply_geometry(in_crs, rows[1].geometry, f, kw)]

\* gdf.apply(lambda x: self.apply_geometry(x.geometry, func, *args, **kwargs), axis=1)
row_results(in_crs, rows, f, kw) ==
    [i \in 1..Len(rows) |-> apply_geometry(in_crs, rows[i].geometry, f, kw)]

\* the rows are computed in order: the first exception ends the call
first_error(results) ==
    IF \A i \in 1..Len(results) : results[i].err = None THEN None
    ELSE results[CHOOSE i \in 1..Len(results) :
                    /\ results[i].err # None
                    /\ \A j \in 1..(i - 1) : results[j].err = None].err

\* gdf['geometry'] = <the series of the results>
set_geometry(table, results) ==
    [table EXCEPT !.rows = [i \in 1..Len(table.rows) |->
                               [table.rows[i] EXCEPT !.geometry = results[i].ret]]]

\* apply_geodataframe once the rows are computed: the table is assigned to and
\* returned (gdf: the caller's table after the call), or the exception ends the call
assign_and_return(table, results) ==
    IF first_error(results) # None
    THEN [ret |-> None, err |-> first_error(results), gdf |-> table]
    ELSE [ret |-> set_geometry(table, results), err |-> None,
          gdf |-> set_geometry(table, results)]

apply_geodataframe(in_crs, table, f, kw) ==
    assign_and_return(table, row_results(in_crs, table.rows, f, kw))

\* self.apply_geodataframe(gdf, func, **kwargs)
Call_apply_geodataframe ==
    /\ gdf' = apply_geodataframe(input_crs, gdf, func.name, func.kw).gdf
    /\ rcall' = [op |-> "apply_geodataframe",
                 ret |-> apply_geodataframe(input_crs, gdf, func.name, func.kw).ret,
                 err |-> apply_geodataframe(input_crs, gdf, func.name, func.kw).err,
                 trace |-> <<>>]
    /\ UNCHANGED <<input_crs, geom, func, ellipseVars, threadVars>>

\* the tables tried: 1 to MaxRows rows, each with one of two values in its other
\* column and one of four geometries (the test's centroid, a point and a polygon
\* on the equator, a point beyond latitude 84), read by reprojectors of EPSG:4326
\* and of UTM 16N
BatchGeometries(crs) ==
    { Point(double_of(-844, 10), Deg(33) + 8, crs), Point(float(-78), 0, crs),
      Polygon(double_of(1799, 10), 0, crs), Point(float(0), Deg(85), crs) }
BatchNames == {"a", "b"}
BatchTables(crs) ==
    UNION { { GeoDataFrame([i \in 1..n |-> [index |-> i - 1, name |-> names[i],
                                            geometry |-> geoms[i]]]) :
                names \in [1..n -> BatchNames], geoms \in [1..n -> BatchGeometries(crs)] } :
            n \in 1..MaxRows }

InitBatch ==
    /\ EllipseIdle
    /\ pc = IdleThreads
    /\ frame = NoFrames
    /\ built = <<>>
    /\ rcall = NoRCall
    /\ geom = None
    /\ input_crs \in {CRS_from_epsg(e) : e \in {DEFAULT_EPSG_CRS, 32616}}
    /\ func \in Funcs
    /\ gdf \in BatchTables(input_crs)

NextBatch == Call_apply_geodataframe

SpecBatch == InitBatch /\ [][NextBatch]_vars

\* the rows of a table, last first
Reversed(rows) == [i \in 1..Len(rows) |-> rows[Len(rows) + 1 - i]]

\* apply_geometry on the geometry of row i of the table, alone
RowAlone(i) == apply_geometry(input_crs, gdf.rows[i].geometry, func.name, func.kw)

\* C11: apply_geodataframe returns the table with the same rows in the same order
\* and the other columns unchanged, each row's geometry being what apply_geometry
\* gives for that row's geometry alone, whatever the other rows are and in whatever
\* order the rows are taken (the table with its rows reversed gives the same rows,
\* reversed).  It returns when apply_geometry returns for every row; when it raises
\* for some row, the batch raises what that row raises and the table is left as it
\* was.
C11_BatchRowwise ==
    [][rcall'.op = "apply_geodataframe"
        => IF \A i \in 1..Len(gdf.rows) : RowAlone(i).err = None
           THEN /\ rcall'.err = None
                /\ rcall'.ret = gdf'
                /\ Len(gdf'.rows) = Len(gdf.rows)
                /\ \A i \in 1..Len(gdf.rows) :
                      /\ gdf'.rows[i].index = gdf.rows[i].index
                      /\ gdf'.rows[i].name = gdf.rows[i].name
                      /\ gdf'.rows[i].geometry = RowAlone(i).ret
                /\ apply_geodataframe(input_crs, GeoDataFrame(Reversed(gdf.rows)),
                                      func.name, func.kw).ret.rows = Reversed(gdf'.rows)
           ELSE /\ rcall'.ret = None
                /\ \E i \in 1..Len(gdf.rows) : rcall'.err = RowAlone(i).err
                /\ rcall'.err # None
                /\ gdf' = gdf]_vars

\* a table of two rows with different geometries and different values in the other
\* column was returned, its geometries replaced by polygons that differ
C11_Witness ==
    /\ rcall.op = "apply_geodataframe"
    /\ rcall.err = None
    /\ rcall.ret = gdf
    /\ Len(gdf.rows) = 2
    /\ gdf.rows[1].name # gdf.rows[2].name
    /\ gdf.rows[1].geometry.tag = "Polygon"
    /\ gdf.rows[1].geometry # gdf.rows[2].geometry

----------------------------------------------------------------------------
(* Several threads on one Ellipse (SpecConc).  The Ellipse takes no lock, so a   *)
(* thread can be preempted between any two statements: each step below is one   *)
(* statement of ellipse / generate_ellipse.  pc[t] names the line t is about to *)
(* run.                                                                         *)

\* thread t reads the property: it is about to run `if self._ellipse is None`
Begin_ellipse(t) ==
    /\ pc[t] = "idle"
    /\ pc' = [pc EXCEPT ![t] = "line39"]
    /\ frame' = [frame EXCEPT ![t] = [NoFrame EXCEPT !.op = "ellipse",
                                         !.resolution = DEFAULT_ELLIPSE_RESOLUTION,
                                         !.cache = TRUE]]
    /\ UNCHANGED <<ellipseVars, built, reprojVars>>

\* thread t calls generate_ellipse(resolution, cache)
Begin_generate_ellipse(t, resolution, cache) ==
    /\ pc[t] = "idle"
    /\ pc' = [pc EXCEPT ![t] = "line45"]
    /\ frame' = [frame EXCEPT ![t] = [NoFrame EXCEPT !.op = "generate_ellipse",
                                         !.resolution = resolution, !.cache = cache]]
    /\ UNCHANGED <<ellipseVars, built, reprojVars>>

\* `if self._ellipse is None:` then `self.generate_ellipse(cache=True)`,
\* else on to the return
Line39(t) ==
    /\ pc[t] = "line39"
    /\ pc' = [pc EXCEPT ![t] = IF slot_is_empty(_ellipse) THEN "line45" ELSE "line41"]
    /\ UNCHANGED <<ellipseVars, frame, built, reprojVars>>

\* `reprojector = ...; ellipse = reprojector.apply_geometry(self.centroid, ...)`:
\* the local is bound to the new polygon, or the exception ends the call
Line45(t) ==
    LET r == construct(centroid, semi_major, semi_minor, orientation,
                       frame[t].resolution, nextId)
    IN  /\ pc[t] = "line45"
        /\ r.err # None \/ nextId < MaxObjects
        /\ IF r.err = None
           THEN /\ frame' = [frame EXCEPT ![t].ellipse = r.ret]
                /\ pc' = [pc EXCEPT ![t] = "line52"]
                /\ nextId' = nextId + 1
                /\ built' = Append(built, frame[t].op)
           ELSE /\ frame' = [frame EXCEPT ![t].err = r.err]
                /\ pc' = [pc EXCEPT ![t] = "idle"]
                /\ UNCHANGED <<nextId, built>>
        /\ UNCHANGED <<centroid, semi_major, semi_minor, orientation, _ellipse, last>>
        /\ UNCHANGED reprojVars

\* `if cache: self._ellipse = ellipse` and `return ellipse`, which ends a call of
\* generate_ellipse and takes a read of the property on to its own return
Line52(t) ==
    /\ pc[t] = "line52"
    /\ _ellipse' = store(frame[t].cache, frame[t].ellipse, _ellipse)
    /\ IF frame[t].op = "ellipse"
       THEN /\ pc' = [pc EXCEPT ![t] = "line41"]
            /\ UNCHANGED frame
       ELSE /\ pc' = [pc EXCEPT ![t] = "idle"]
            /\ frame' = [frame EXCEPT ![t].ret = frame[t].ellipse, ![t].ellipse = None]
    /\ UNCHANGED <<centroid, semi_major, semi_minor, orientation, nextId, last>>
    /\ UNCHANGED <<built, reprojVars>>

\* `return self._ellipse`
Line41(t) ==
    /\ pc[t] = "line41"
    /\ pc' = [pc EXCEPT ![t] = "idle"]
    /\ frame' = [frame EXCEPT ![t].ret = _ellipse, ![t].ellipse = None]
    /\ UNCHANGED <<ellipseVars, built, reprojVars>>

\* the Ellipse of the test (2 by 1 nautical miles, turned 10 degrees) at either
\* centroid, shared by the threads; generate_ellipse is called at the default
\* resolution and at one other
ConcResolutions == {DEFAULT_ELLIPSE_RESOLUTION, 16}

InitConc ==
    /\ centroid \in Centroids
    /\ semi_major = 2
    /\ semi_minor = 1
    /\ orientation = 10
    /\ _ellipse = None
    /\ nextId = 0
    /\ last = [call |-> NoCall, before |-> NoCall]
    /\ pc = IdleThreads
    /\ frame = NoFrames
    /\ built = <<>>
    /\ ReprojIdle

NextConc ==
    \/ \E t \in Threads : Begin_ellipse(t)
    \/ \E t \in Threads, resolution \in ConcResolutions, cache \in BOOLEAN :
          Begin_generate_ellipse(t, resolution, cache)
    \/ \E t \in Threads : Line39(t)
    \/ \E t \in Threads : Line45(t)
    \/ \E t \in Threads : Line52(t)
    \/ \E t \in Threads : Line41(t)

SpecConc == InitConc /\ [][NextConc]_vars

\* C10: when the threads only read the property (no generate_ellipse call is made),
\* the polygon of the Ellipse is constructed at most once, under every interleaving.
C10_AtMostOneConstruction ==
    (\A i \in 1..Len(built) : built[i] = "ellipse") => Len(built) <= 1

\* C14: under every interleaving of reads of the property and generate_ellipse
\* calls, a read that returns yields what the slot holds at its return, a whole
\* polygon that a completed construction built from this Ellipse's fields and that
\* was stored in the slot; never None.
C14_ReadReturnsStoredPolygon ==
    [][\A t \in Threads :
          (pc[t] = "line41" /\ pc'[t] = "idle")
              => /\ frame'[t].op = "ellipse"
                 /\ frame'[t].err = None
                 /\ frame'[t].ret = _ellipse
                 /\ frame'[t].ret # None
                 /\ frame'[t].ret.tag = "Polygon"
                 /\ frame'[t].ret.id \in 0..(nextId - 1)
                 /\ Len(built) > frame'[t].ret.id
                 /\ BuiltFromFields(frame'[t].ret, frame'[t].ret.quad_segs)]_vars

\* two threads both found the slot empty and both built; both reads returned the
\* polygon stored last
C14_Witness ==
    /\ \A t \in Threads : pc[t] = "idle"
    /\ frame[1].op = "ellipse"
    /\ frame[2].op = "ellipse"
    /\ built = <<"ellipse", "ellipse">>
    /\ frame[1].ret # None
    /\ frame[1].ret = frame[2].ret
    /\ frame[1].ret.id = 1
    /\ _ellipse = frame[1].ret

====
